---- MODULE Spec2Model ----
(***************************************************************************)
(* Templatar (src/index.js, lines 11-61): a placeholder replacement       *)
(* engine.  An engine is constructed from an option bag and then          *)
(* replace(template, data) is called on it.  Text is a sequence of        *)
(* one-character strings; a JavaScript value is a tagged record.          *)
(* replace is String.prototype.replace with a global regular expression   *)
(* and a replacer function: the matches are collected first, then the     *)
(* replacer runs once per match, left to right, then the result is built. *)
(***************************************************************************)
EXTENDS Integers, Sequences, FiniteSets, TLC

VARIABLES
  engine,    \* this.delimiters, this.ignoreMissing, this.transform
  template,  \* the caller's first argument (any JavaScript value)
  data,      \* the caller's second argument (any JavaScript value)
  pc,        \* "idle" | "replacing" | "returned" | "threw"
  matches,   \* the matches String.prototype.replace collected for this call
  idx,       \* how many of them the replacer has been called for
  pos,       \* the position in template after the last replaced match
  out,       \* the result accumulated so far
  hook,      \* the calls of this.transform made so far: argument and result
  ret,       \* the value the call returned
  err,       \* the error the call threw
  first      \* inputs and outcome of the first finished call on the engine

vars == <<engine, template, data, pc, matches, idx, pos, out, hook, ret, err, first>>

(***************************************************************************)
(* Bounds.                                                                 *)
(***************************************************************************)
\* A template is a concatenation of at most MaxSegs fragments.
MaxSegs == 2
\* The same, where several calls are made on one engine.
MaxCallSegs == 1

(***************************************************************************)
(* JavaScript values.  s: the characters of a string, n: a number,        *)
(* o: the entries <<[k, v], ...>> of an object or the items of an array.  *)
(***************************************************************************)
Val(t, s, n, o) == [t |-> t, s |-> s, n |-> n, o |-> o]
Undef == Val("undefined", <<>>, 0, <<>>)
Null == Val("null", <<>>, 0, <<>>)
Str(s) == Val("string", s, 0, <<>>)
Num(n) == Val("number", <<>>, n, <<>>)
Obj(entries) == Val("object", <<>>, 0, entries)
Arr(items) == Val("array", <<>>, 0, items)
Entry(k, v) == [k |-> k, v |-> v]

\* typeof v
TypeOf(v) == IF v.t \in {"null", "object", "array"} THEN "object" ELSE v.t

\* ToBoolean(v), as `a || b` reads its left operand
Truthy(v) ==
  CASE v.t = "undefined" -> FALSE
    [] v.t = "null" -> FALSE
    [] v.t = "string" -> v.s # <<>>
    [] v.t = "number" -> v.n # 0
    [] OTHER -> TRUE

\* a || b
OrElse(a, b) == IF Truthy(a) THEN a ELSE b

RECURSIVE Digits(_)
\* the decimal digits of a natural number
Digits(n) ==
  LET d == <<"0", "1", "2", "3", "4", "5", "6", "7", "8", "9">>
  IN IF n < 10 THEN <<d[n + 1]>> ELSE Digits(n \div 10) \o <<d[(n % 10) + 1]>>

\* String(v)
ToStr(v) ==
  CASE v.t = "string" -> v
    [] v.t = "undefined" -> Str(<<"u", "n", "d", "e", "f", "i", "n", "e", "d">>)
    [] v.t = "null" -> Str(<<"n", "u", "l", "l">>)
    [] v.t = "number" -> Str(Digits(v.n))
    [] v.t = "array" -> Str(<<>>)
    [] OTHER -> Str(<<"[", "o", "b", "j", "e", "c", "t", " ", "O", "b", "j", "e", "c", "t", "]">>)

\* util.inspect's depth option at the call in replace
InspectDepth == 4

RECURSIVE Inspect(_, _)
RECURSIVE InspectEntries(_, _, _)
\* util.inspect(v, { depth: 4 }) of a value nested `depth` levels deep, for the
\* values of the model: null, strings, numbers and objects that fit one line.
Inspect(v, depth) ==
  CASE v.t = "null" -> <<"n", "u", "l", "l">>
    [] v.t = "undefined" -> ToStr(v).s
    [] v.t = "number" -> Digits(v.n)
    [] v.t = "string" -> <<"'">> \o v.s \o <<"'">>
    [] v.t = "array" -> <<"[", "]">>
    [] OTHER ->
         IF v.o = <<>> THEN <<"{", "}">>
         ELSE IF depth > InspectDepth THEN <<"[", "O", "b", "j", "e", "c", "t", "]">>
         ELSE <<"{", " ">> \o InspectEntries(v.o, 1, depth) \o <<" ", "}">>
InspectEntries(es, i, depth) ==
  LET one == es[i].k \o <<":", " ">> \o Inspect(es[i].v, depth + 1)
  IN IF i = Len(es) THEN one
     ELSE one \o <<",", " ">> \o InspectEntries(es, i + 1, depth)

(***************************************************************************)
(* Text helpers.                                                           *)
(***************************************************************************)
\* lit occurs in t at position i (1-based)
OccursAt(t, i, lit) ==
  /\ i >= 1
  /\ i + Len(lit) - 1 <= Len(t)
  /\ \A j \in 1..Len(lit) : t[i + j - 1] = lit[j]

\* t from position i (1-based) to its end
From(t, i) == SubSeq(t, i, Len(t))

RECURSIVE Split(_, _)
\* String.prototype.split(sep) with a non-empty separator and no limit
Split(s, sep) ==
  LET hits == {i \in 1..Len(s) : OccursAt(s, i, sep)}
  IN IF hits = {} THEN <<s>>
     ELSE LET i == CHOOSE h \in hits : \A g \in hits : h <= g
          IN <<SubSeq(s, 1, i - 1)>> \o Split(From(s, i + Len(sep)), sep)

\* white space as String.prototype.trim sees it
IsWhite(c) == c \in {" ", "\n", "\t", "\r"}

RECURSIVE TrimStart(_)
TrimStart(s) == IF s # <<>> /\ IsWhite(Head(s)) THEN TrimStart(Tail(s)) ELSE s

RECURSIVE TrimEnd(_)
TrimEnd(s) ==
  IF s # <<>> /\ IsWhite(s[Len(s)]) THEN TrimEnd(SubSeq(s, 1, Len(s) - 1)) ELSE s

\* String.prototype.trim
Trim(s) == TrimEnd(TrimStart(s))

(***************************************************************************)
(* dot-prop's getProperty(object, path, value), imported at line 8 and    *)
(* called at line 40, for paths without brackets and backslashes.         *)
(***************************************************************************)
\* object[key] for one path segment
Prop(object, key) ==
  IF object.t = "object" /\ \E i \in 1..Len(object.o) : object.o[i].k = key
  THEN object.o[CHOOSE i \in 1..Len(object.o) : object.o[i].k = key].v
  ELSE Undef

RECURSIVE Walk(_, _, _, _)
Walk(object, segs, i, value) ==
  LET next == Prop(object, segs[i])
  IN IF next.t \in {"undefined", "null"}
     THEN IF i # Len(segs) THEN value
          ELSE IF next = Undef THEN value ELSE next
     ELSE IF i = Len(segs) THEN next
     ELSE Walk(next, segs, i + 1, value)

GetProperty(object, path, value) ==
  IF TypeOf(object) # "object" \/ object = Null
  THEN IF value = Undef THEN object ELSE value
  ELSE Walk(object, Split(path, <<".">>), 1, value)

(***************************************************************************)
(* The constructor.                                                        *)
(***************************************************************************)
DefaultStarting == <<"<", "{">>
DefaultClosing == <<"}", ">">>

\* new Templatar(options); an option left out is Undef
Constructor(options) ==
  [delimiters |->
     [starting |-> OrElse(options.starting, Str(DefaultStarting)).s,
      closing |-> OrElse(options.closing, Str(DefaultClosing)).s],
   ignoreMissing |-> IF options.ignoreMissing THEN TRUE ELSE FALSE,
   transform |-> IF options.transform = "unset" THEN "value" ELSE options.transform]

\* this.transform(arg): the default `(data) => data.value`, and the README's
\* `({ value, key }) => value || 'N/A'`
ApplyTransform(tf, arg) ==
  IF tf = "value" THEN arg.value
  ELSE OrElse(arg.value, Str(<<"N", "/", "A">>))

(***************************************************************************)
(* The pattern.                                                            *)
(***************************************************************************)
RegExpSpecial == {".", "*", "+", "?", "^", "$", "{", "}", "(", ")", "|", "[", "]", "\\"}

RECURSIVE EscapeRegExp(_)
\* s.replace(/[.*+?^${}()|[\]\\]/g, '\\$&')
EscapeRegExp(s) ==
  IF s = <<>> THEN <<>>
  ELSE (IF Head(s) \in RegExpSpecial THEN <<"\\", Head(s)>> ELSE <<Head(s)>>)
       \o EscapeRegExp(Tail(s))

RECURSIVE Atoms(_)
\* the literal characters a pattern source stands for: `\c` is the character c;
\* an unescaped special character is no literal character
Atoms(src) ==
  IF src = <<>> THEN <<>>
  ELSE IF Head(src) = "\\" /\ Len(src) >= 2 THEN <<src[2]>> \o Atoms(Tail(Tail(src)))
  ELSE IF Head(src) \in RegExpSpecial THEN <<"(meta)">> \o Atoms(Tail(src))
  ELSE <<Head(src)>> \o Atoms(Tail(src))

\* new RegExp(`${escapedStart}([\\w\\W]+?)${escapedEnd}`, 'g')
Pattern(delimiters) ==
  [start |-> Atoms(EscapeRegExp(delimiters.starting)),
   end |-> Atoms(EscapeRegExp(delimiters.closing))]

\* a greedy quantifier: the last closing delimiter after the body's first character
LazyBodyGreedy(t, from, n, pat) ==
  LET hits == {c \in (from + n)..Len(t) : OccursAt(t, c, pat.end)}
  IN IF hits = {} THEN 0 ELSE CHOOSE c \in hits : \A g \in hits : g <= c

RECURSIVE LazyBody(_, _, _, _)
\* ([\w\W]+?) followed by the closing delimiter: the body starts at `from`; try
\* n = 1, 2, ... characters of any kind; the position of the closing delimiter
\* found, or 0
LazyBody(t, from, n, pat) ==
  IF from + n - 1 > Len(t) THEN 0
  ELSE IF OccursAt(t, from + n, pat.end) THEN from + n
  ELSE LazyBody(t, from, n + 1, pat)

\* the pattern matched at position i: the position of its closing delimiter, or 0
MatchAt(t, i, pat) ==
  IF OccursAt(t, i, pat.start) THEN LazyBody(t, i + Len(pat.start), 1, pat) ELSE 0

RECURSIVE AllMatches(_, _, _)
\* every match of the global pattern from lastIndex on, left to right; a match
\* is [start, end (the position after it), keyStr (the capture group)]
AllMatches(t, lastIndex, pat) ==
  IF lastIndex > Len(t) THEN <<>>
  ELSE LET c == MatchAt(t, lastIndex, pat)
       IN IF c = 0 THEN AllMatches(t, lastIndex + 1, pat)
          ELSE <<[start |-> lastIndex,
                  end |-> c + Len(pat.end),
                  keyStr |-> SubSeq(t, lastIndex + Len(pat.start), c - 1)]>>
               \o AllMatches(t, c + Len(pat.end), pat)

(***************************************************************************)
(* The replacer function (lines 35-59).                                    *)
(***************************************************************************)
Separator == <<"|", "|">>

\* const [key, defaultVal] = keyStr.split('||')
KeyOf(keyStr) == Split(keyStr, Separator)[1]
DefaultValOf(keyStr) ==
  LET parts == Split(keyStr, Separator)
  IN IF Len(parts) >= 2 THEN Str(parts[2]) ELSE Undef

\* the flag read the wrong way round
MissingKeyThrowsInverted(value, ignoreMissing) == value = Undef /\ ignoreMissing

\* value === undefined && !this.ignoreMissing
MissingKeyThrows(value, ignoreMissing) == value = Undef /\ ~ignoreMissing

\* lines 50-56: objects are inspected, the rest is stringified
Normalize(value) ==
  IF TypeOf(value) = "object" THEN Str(Inspect(value, 0))
  ELSE IF TypeOf(value) # "string" THEN ToStr(value)
  ELSE value

RECURSIVE ExpandFrom(_, _, _)
\* t with matches ms[k..] of the pattern replaced by what their keys hold in data
ExpandFrom(t, ms, k) ==
  IF k > Len(ms) THEN From(t, IF k = 1 THEN 1 ELSE ms[k - 1].end)
  ELSE SubSeq(t, IF k = 1 THEN 1 ELSE ms[k - 1].end, ms[k].start - 1)
       \o ToStr(GetProperty(data, Trim(ms[k].keyStr), Str(<<>>))).s
       \o ExpandFrom(t, ms, k + 1)

\* the replacement text scanned for placeholders once more
ReplacementTextExpanded(tf, arg) ==
  LET text == ToStr(ApplyTransform(tf, arg)).s
  IN ExpandFrom(text, AllMatches(text, 1, Pattern(engine.delimiters)), 1)

\* String(this.transform({ value, defaultVal, key: trimmedKey }))
ReplacementText(tf, arg) == ToStr(ApplyTransform(tf, arg)).s

\* typeof template !== 'string'
TemplateInvalid(t) == TypeOf(t) # "string"

\* null passes for an object
DataInvalidTypeofOnly(d) == TypeOf(d) # "object"

\* typeof data !== 'object' || data === null
DataInvalid(d) == TypeOf(d) # "object" \/ d = Null

NoErr == [kind |-> "none", key |-> <<>>]

(***************************************************************************)
(* Inputs.                                                                 *)
(***************************************************************************)
\* the option bags of the README: the defaults, ignoreMissing, a transform,
\* and the delimiters {{ and }}
Options ==
  { [starting |-> Undef, closing |-> Undef, ignoreMissing |-> i, transform |-> f] :
      i \in BOOLEAN, f \in {"unset", "orNA"} }
  \cup
  { [starting |-> Str(<<"{", "{">>), closing |-> Str(<<"}", "}">>),
     ignoreMissing |-> i, transform |-> "unset"] : i \in BOOLEAN }

\* what templates are made of, for an engine's delimiters S and E
Fragments(S, E) ==
  { <<"x">>,
    <<" ", "\n">>,
    S,
    E,
    S \o E,
    S \o <<"a">> \o E,
    S \o <<"b">> \o E,
    S \o <<" ", "a", " ", "|", "|", "\n", " ", "d", " ", "e", " ">> \o E,
    S \o <<"b", "|", "|", "d", "|", "|", "e">> \o E,
    <<"y">> \o S \o <<"a", ".", "b">> \o E \o <<" ">>,
    S \o <<"|", "|", "d">> \o E,
    S \o <<"b", "|", "|">> \o S \o <<"a">> \o E }

RECURSIVE Concats(_, _)
Concats(F, n) ==
  IF n = 0 THEN {<<>>}
  ELSE LET prev == Concats(F, n - 1) IN prev \cup {p \o f : p \in prev, f \in F}

Templates(S, E, n) ==
  {Str(t) : t \in Concats(Fragments(S, E), n)} \cup {Num(42), Null, Undef}

DataValues(S, E) ==
  { Obj(<<>>),
    Obj(<<Entry(<<"a">>, Str(<<"v">>))>>),
    Obj(<<Entry(<<"a">>, Null)>>),
    Obj(<<Entry(<<"a">>, Str(<<>>))>>),
    Obj(<<Entry(<<"a">>, Num(70))>>),
    Obj(<<Entry(<<"a">>, Str(S \o <<"b">> \o E)), Entry(<<"b">>, Str(<<"w">>))>>),
    Obj(<<Entry(<<"a">>, Obj(<<Entry(<<"b">>, Str(<<"w">>))>>))>>),
    Arr(<<>>),
    Null, Undef, Str(<<"s">>) }

(***************************************************************************)
(* The state machine.                                                      *)
(***************************************************************************)
NoRet == [t |-> "none", s |-> <<>>, n |-> 0, o |-> <<>>]
\* other: a call with other inputs finished after the first call;
\* again: after that, a call with the first call's inputs finished
NoFirst ==
  [set |-> FALSE, template |-> Undef, data |-> Undef, pc |-> "idle", ret |-> NoRet,
   err |-> NoErr, other |-> FALSE, again |-> FALSE]

InitWith(n) ==
  /\ engine \in {Constructor(o) : o \in Options}
  /\ template \in Templates(engine.delimiters.starting, engine.delimiters.closing, n)
  /\ data \in DataValues(engine.delimiters.starting, engine.delimiters.closing)
  /\ pc = "idle"
  /\ matches = <<>>
  /\ idx = 0
  /\ pos = 1
  /\ out = <<>>
  /\ hook = <<>>
  /\ ret = NoRet
  /\ err = NoErr
  /\ first = NoFirst

Init == InitWith(MaxSegs)

\* the outcome of a finished call, remembered if it is the engine's first
Remember(p, r, e) ==
  IF ~first.set
  THEN [set |-> TRUE, template |-> template, data |-> data, pc |-> p, ret |-> r,
        err |-> e, other |-> FALSE, again |-> FALSE]
  ELSE IF template = first.template /\ data = first.data
  THEN [first EXCEPT !.again = first.other]
  ELSE [first EXCEPT !.other = TRUE]

\* the accumulated result kept from one call to the next
CallKeepsOut ==
  /\ pc = "idle"
  /\ hook' = <<>>
  /\ ret' = NoRet
  /\ idx' = 0
  /\ pos' = 1
  /\ out' = out
  /\ IF TemplateInvalid(template)
     THEN /\ pc' = "threw"
          /\ err' = [kind |-> "Template must be a string", key |-> <<>>]
          /\ matches' = <<>>
     ELSE IF DataInvalid(data)
     THEN /\ pc' = "threw"
          /\ err' = [kind |-> "Data must be an object", key |-> <<>>]
          /\ matches' = <<>>
     ELSE /\ pc' = "replacing"
          /\ err' = NoErr
          /\ matches' = AllMatches(template.s, 1, Pattern(engine.delimiters))
  /\ first' = IF pc' = "threw" THEN Remember("threw", NoRet, err') ELSE first
  /\ UNCHANGED <<engine, template, data>>

\* replace(template, data) up to the collection of the matches (lines 21-35)
Call ==
  /\ pc = "idle"
  /\ hook' = <<>>
  /\ ret' = NoRet
  /\ idx' = 0
  /\ pos' = 1
  /\ out' = <<>>
  /\ IF TemplateInvalid(template)
     THEN /\ pc' = "threw"
          /\ err' = [kind |-> "Template must be a string", key |-> <<>>]
          /\ matches' = <<>>
     ELSE IF DataInvalid(data)
     THEN /\ pc' = "threw"
          /\ err' = [kind |-> "Data must be an object", key |-> <<>>]
          /\ matches' = <<>>
     ELSE /\ pc' = "replacing"
          /\ err' = NoErr
          /\ matches' = AllMatches(template.s, 1, Pattern(engine.delimiters))
  /\ first' = IF pc' = "threw" THEN Remember("threw", NoRet, err') ELSE first
  /\ UNCHANGED <<engine, template, data>>

\* the replacer function called for the next match (lines 35-59)
EvalSpan ==
  /\ pc = "replacing"
  /\ idx < Len(matches)
  /\ LET m == matches[idx + 1]
         key == KeyOf(m.keyStr)
         defaultVal == DefaultValOf(m.keyStr)
         trimmedKey == Trim(key)
         value == GetProperty(data, trimmedKey, defaultVal)
     IN IF MissingKeyThrows(value, engine.ignoreMissing)
        THEN /\ pc' = "threw"
             /\ err' = [kind |-> "Key is not found and ignoreMissing is false",
                        key |-> trimmedKey]
             /\ first' = Remember("threw", NoRet, err')
             /\ UNCHANGED <<idx, pos, out, hook>>
        ELSE LET arg == [value |-> Normalize(value), defaultVal |-> defaultVal,
                         key |-> trimmedKey]
                 text == ReplacementText(engine.transform, arg)
             IN /\ hook' = Append(hook, [arg |-> arg, text |-> text])
                /\ out' = out \o SubSeq(template.s, pos, m.start - 1) \o text
                /\ pos' = m.end
                /\ idx' = idx + 1
                /\ UNCHANGED <<pc, err, first>>
  /\ UNCHANGED <<engine, template, data, matches, ret>>

\* the text after the last span left out of the result
FinishDropsRest ==
  /\ pc = "replacing"
  /\ idx = Len(matches)
  /\ pc' = "returned"
  /\ ret' = Str(out)
  /\ first' = Remember("returned", ret', NoErr)
  /\ UNCHANGED <<engine, template, data, matches, idx, pos, out, hook, err>>

\* String.prototype.replace returns: the rest of the template is appended
Finish ==
  /\ pc = "replacing"
  /\ idx = Len(matches)
  /\ pc' = "returned"
  /\ ret' = Str(out \o From(template.s, pos))
  /\ first' = Remember("returned", ret', NoErr)
  /\ UNCHANGED <<engine, template, data, matches, idx, pos, out, hook, err>>

Next == Call \/ EvalSpan \/ Finish

Spec == Init /\ [][Next]_vars

(***************************************************************************)
(* Several calls on one engine.  After a call has finished the caller     *)
(* calls replace again: with the inputs of the engine's first call, or    *)
(* with one of a few other inputs.                                         *)
(***************************************************************************)
OtherInputs(S, E) ==
  { [template |-> Str(S \o <<"a">> \o E \o <<"x">> \o S \o <<"b">> \o E),
     data |-> Obj(<<Entry(<<"a">>, Str(<<"v">>))>>)],
    [template |-> Str(<<"x">>), data |-> Null],
    [template |-> Str(S \o <<"a", "|", "|", "d">> \o E \o <<"x">>), data |-> Obj(<<>>)] }

NextCall ==
  /\ pc \in {"returned", "threw"}
  /\ \E in \in OtherInputs(engine.delimiters.starting, engine.delimiters.closing)
               \cup {[template |-> first.template, data |-> first.data]} :
       /\ template' = in.template
       /\ data' = in.data
  /\ pc' = "idle"
  /\ UNCHANGED <<engine, matches, idx, pos, out, hook, ret, err, first>>

NextCalls == Next \/ NextCall

InitCalls == InitWith(MaxCallSegs)

SpecCalls == InitCalls /\ [][NextCalls]_vars

(***************************************************************************)
(* What the claims speak of, read off the template and the data.          *)
(***************************************************************************)
Starting == engine.delimiters.starting
Closing == engine.delimiters.closing
Text == template.s
NumSpans == Len(matches)

\* the call got past the checks of its arguments
Scanned ==
  pc \in {"replacing", "returned"}
  \/ (pc = "threw" /\ err.kind = "Key is not found and ignoreMissing is false")

\* the raw key expression of span k: the text between its delimiters
Raw(k) == SubSeq(Text, matches[k].start + Len(Starting), matches[k].end - Len(Closing) - 1)

\* the position of the first `||` in a raw key expression, or 0
FirstSep(raw) ==
  LET hits == {i \in 1..Len(raw) : OccursAt(raw, i, <<"|", "|">>)}
  IN IF hits = {} THEN 0 ELSE CHOOSE h \in hits : \A g \in hits : h <= g

HasDefault(raw) == FirstSep(raw) # 0
\* the key: the text before the first `||`, trimmed
KeyText(raw) == Trim(IF HasDefault(raw) THEN SubSeq(raw, 1, FirstSep(raw) - 1) ELSE raw)
\* the default expression: everything after the first `||`
DefaultText(raw) == SubSeq(raw, FirstSep(raw) + 2, Len(raw))

\* the key resolves to no value in data / to null
KeyMissing(key) == GetProperty(data, key, Undef) = Undef
KeyNull(key) == GetProperty(data, key, Undef) = Null

\* the first span whose key resolves to no value and which has no default, or 0
FirstMissing ==
  LET bad == {k \in 1..NumSpans : ~HasDefault(Raw(k)) /\ KeyMissing(KeyText(Raw(k)))}
  IN IF bad = {} THEN 0 ELSE CHOOSE k \in bad : \A j \in bad : k <= j

\* the text outside the spans: before span 1 (k = 0), between span k and span
\* k + 1, after the last span (k = NumSpans)
Outside(k) ==
  SubSeq(Text,
         IF k = 0 THEN 1 ELSE matches[k].end,
         IF k = NumSpans THEN Len(Text) ELSE matches[k + 1].start - 1)

RECURSIVE Spliced(_, _)
\* the text outside the spans with texts[1..k] in place of spans 1..k, up to and
\* including the text that follows span k
Spliced(texts, k) ==
  IF k = 0 THEN Outside(0) ELSE Spliced(texts, k - 1) \o texts[k] \o Outside(k)

\* the template holds a starting delimiter and, somewhere after it, a closing one
HasDelimitedSpan ==
  \E i \in 1..Len(Text) :
    /\ OccursAt(Text, i, Starting)
    /\ \E j \in (i + Len(Starting))..Len(Text) : OccursAt(Text, j, Closing)

\* a text that holds a starting delimiter and, later, a closing one
LooksLikeSpan(t) ==
  \E i, j \in 1..Len(t) : OccursAt(t, i, Starting) /\ OccursAt(t, j, Closing) /\ j > i + Len(Starting)

(***************************************************************************)
(* The claims.                                                             *)
(***************************************************************************)

\* C1: with ignoreMissing false, the first span (left to right) whose key
\* resolves to no value and which has no default makes the call fail with an
\* error naming that key: nothing is returned, neither that span nor a later one
\* reaches the transform hook, and the spans before it were evaluated in order.
C1_MissingKeyFails ==
  (Scanned /\ ~engine.ignoreMissing /\ FirstMissing # 0) =>
    /\ pc # "returned"
    /\ ret = NoRet
    /\ Len(hook) < FirstMissing
    /\ \A k \in 1..Len(hook) : hook[k].arg.key = KeyText(Raw(k))
    /\ pc = "threw" =>
         /\ err.kind = "Key is not found and ignoreMissing is false"
         /\ err.key = KeyText(Raw(FirstMissing))
         /\ Len(hook) = FirstMissing - 1

\* C1's case: the second span of a template failed, after the first was evaluated
C1_Witness ==
  /\ pc = "threw"
  /\ ~engine.ignoreMissing
  /\ FirstMissing = 2
  /\ Len(hook) = 1

\* C2: for every span, the key is the text before the first `||` and the
\* default expression is the entire remainder after it, further `||` included.
C2_FirstSeparatorOnly ==
  \A k \in 1..Len(hook) :
    /\ hook[k].arg.key = KeyText(Raw(k))
    /\ hook[k].arg.defaultVal = IF HasDefault(Raw(k)) THEN Str(DefaultText(Raw(k))) ELSE Undef

\* C3: for a span with a default expression whose key is null or missing in
\* data, the replacement text (default transform) is the default expression.
C3_NullOrMissingUsesDefault ==
  \A k \in 1..Len(hook) :
    ( /\ engine.transform = "value"
      /\ hook[k].arg.defaultVal # Undef
      /\ KeyMissing(hook[k].arg.key) \/ KeyNull(hook[k].arg.key) )
    => hook[k].text = hook[k].arg.defaultVal.s

\* C4: with ignoreMissing true, a span whose key is absent and which has no
\* default does not raise, the transform hook receives undefined as it is, and
\* the transform `value || 'N/A'` makes the replacement text N/A.
C4_UndefinedReachesTransform ==
  (Scanned /\ engine.ignoreMissing) =>
    /\ pc # "threw"
    /\ \A k \in 1..Len(hook) :
         (~HasDefault(Raw(k)) /\ KeyMissing(KeyText(Raw(k)))) =>
           /\ hook[k].arg.value = Undef
           /\ engine.transform = "orNA" => hook[k].text = <<"N", "/", "A">>

\* C5: for a string template and a data object, the output keeps the text
\* outside the spans, unchanged and in order, around the replacement texts; a
\* template without a delimiter-bounded span is returned as it is.
C5_OutsideTextKept ==
  (template.t = "string" /\ data.t \in {"object", "array"}) =>
    /\ pc = "returned" =>
         /\ Len(hook) = NumSpans
         /\ ret = Str(Spliced([k \in 1..NumSpans |-> hook[k].text], NumSpans))
    /\ (pc \in {"returned", "threw"} /\ ~HasDelimitedSpan) =>
         /\ pc = "returned"
         /\ ret = template

\* C5's case: a call returned a template with text before, between and after two spans
C5_Witness ==
  /\ pc = "returned"
  /\ NumSpans = 2
  /\ Outside(0) # <<>>
  /\ Outside(1) # <<>>
  /\ Outside(2) # <<>>
  /\ ret.s # Text

\* C5's other case: a template without a span was returned
C5_WitnessPlain ==
  pc = "returned" /\ ~HasDelimitedSpan /\ Text # <<>>

\* C6: for a span `key||X` whose key is absent from data, the replacement text
\* (default transform) is X verbatim, with all its white space.
C6_DefaultVerbatim ==
  \A k \in 1..Len(hook) :
    ( /\ engine.transform = "value"
      /\ HasDefault(Raw(k))
      /\ KeyMissing(KeyText(Raw(k))) )
    => hook[k].text = DefaultText(Raw(k))

\* C7: replace raises before any span is evaluated (the transform hook is never
\* called, nothing is returned) when template is not a string, and when data is
\* null or not an object.
C7_ArgumentErrors ==
  (template.t # "string" \/ data.t \notin {"object", "array"}) =>
    /\ pc \in {"idle", "threw"}
    /\ hook = <<>>
    /\ ret = NoRet
    /\ pc = "threw" =>
         err.kind = IF template.t # "string" THEN "Template must be a string"
                    ELSE "Data must be an object"

\* C7's case: a call with a template that holds a span and null data has thrown
C7_Witness ==
  /\ pc = "threw"
  /\ template.t = "string"
  /\ data = Null
  /\ LooksLikeSpan(Text)

\* C8: a resolved value or default that itself holds delimiter text goes into
\* the output as it is (default transform): the output is the text outside the
\* spans of the original template around the values as resolved, and there is
\* one hook call per span of the original template.
C8_FlatPass ==
  LET resolved(k) == GetProperty(data, hook[k].arg.key, hook[k].arg.defaultVal)
      literal(k) == IF resolved(k).t = "string" /\ engine.transform = "value"
                    THEN resolved(k).s ELSE hook[k].text
  IN /\ pc = "replacing" =>
          /\ Len(hook) = idx
          /\ out \o SubSeq(Text, pos, IF idx = NumSpans THEN Len(Text) ELSE matches[idx + 1].start - 1)
               = Spliced([k \in 1..idx |-> literal(k)], idx)
     /\ pc = "returned" =>
          /\ Len(hook) = NumSpans
          /\ ret.s = Spliced([k \in 1..NumSpans |-> literal(k)], NumSpans)

\* C8's case: a returned call substituted a value that holds a delimited span
C8_Witness ==
  /\ pc = "returned"
  /\ engine.transform = "value"
  /\ \E k \in 1..Len(hook) : LooksLikeSpan(hook[k].text)

\* C9: a call changes neither the engine's configuration nor, while it runs,
\* the caller's template and data; and a call with the inputs of the engine's
\* first call ends as that first call ended.
C9_NoStateCarried ==
  [][ /\ engine' = engine
      /\ pc \in {"idle", "replacing"} => (template' = template /\ data' = data)
      /\ ( /\ pc \in {"idle", "replacing"}
           /\ pc' \in {"returned", "threw"}
           /\ first.set
           /\ template = first.template
           /\ data = first.data )
         => (pc' = first.pc /\ ret' = first.ret /\ err' = first.err) ]_vars

\* C9's case: the first call's inputs were used again after another call, and
\* that call has finished
C9_Witness ==
  /\ pc = "returned"
  /\ first.again
  /\ template = first.template
  /\ data = first.data
  /\ Len(hook) >= 1
  /\ ret = first.ret

\* C10 as amended: every span substituted begins at an occurrence of the starting delimiter
\* and ends with the first occurrence of the closing delimiter that begins at
\* least one character after the starting delimiter ends; spans are found left
\* to right (no earlier delimited span is skipped) and do not overlap.
C10_SpansLazyNonEmpty ==
  \A k \in 1..idx :
    LET m == matches[k]
        body == m.start + Len(Starting)
        close == m.end - Len(Closing)
        gapFrom == IF k = 1 THEN 1 ELSE matches[k - 1].end
    IN /\ OccursAt(Text, m.start, Starting)
       /\ OccursAt(Text, close, Closing)
       /\ close >= body + 1
       /\ \A p \in (body + 1)..(close - 1) : ~OccursAt(Text, p, Closing)
       /\ gapFrom <= m.start
       /\ \A i \in gapFrom..(m.start - 1) :
            ~(OccursAt(Text, i, Starting)
              /\ \E j \in (i + Len(Starting) + 1)..Len(Text) : OccursAt(Text, j, Closing))

\* C10's case: a substituted span whose starting delimiter is directly followed
\* by a closing delimiter, which does not end it
C10_Witness ==
  /\ pc = "returned"
  /\ \E k \in 1..idx : OccursAt(Text, matches[k].start + Len(Starting), Closing)

\* C10 as stated: every span substituted ends at the next occurrence of the closing
\* delimiter after its starting delimiter, with any characters or none between.
C10_SpansEndAtNextClosing ==
  \A k \in 1..idx :
    LET m == matches[k]
        body == m.start + Len(Starting)
        close == m.end - Len(Closing)
    IN /\ OccursAt(Text, m.start, Starting)
       /\ OccursAt(Text, close, Closing)
       /\ \A p \in body..(close - 1) : ~OccursAt(Text, p, Closing)

====
